---- MODULE Spec2Model ----
(***************************************************************************)
(* monswitch: discovery of DDC/CI monitors and the Input Select command.   *)
(*                                                                         *)
(* The model follows src/src/display/monitor.rs (MonitorManager, Monitor,  *)
(* MonitorInput), src/src/gui/app.rs (App::create_with_monitor_manager)    *)
(* and src/src/main.rs.  The capability-string parser                      *)
(* (crate::display::mccs::MonitorCapabilities) is not among the sources;   *)
(* it is modelled from section 4.1 of the specification.                   *)
(*                                                                         *)
(* A Rust String is a sequence of one-character strings, so that the       *)
(* parser and the token comparisons work on the characters themselves.     *)
(* Option<T> is a sequence of length 0 (None) or 1 (Some).                 *)
(***************************************************************************)
EXTENDS Integers, Sequences, FiniteSets, TLC

VARIABLES
    displays,          \* EnumDisplayMonitors / GetPhysicalMonitorsFromHMONITOR: handles per display
    capReply,          \* CapabilitiesRequestAndCapabilitiesReply: handle -> capability string
    pc,                \* position of main: "discover", "app", "run", "panicked"
    di,                \* outer loop of get_all_monitors: displays already taken
    phys_mons,         \* physical monitors of the current display
    pj,                \* inner loop of get_all_monitors: next physical monitor
    monitors,          \* the local Vec<Monitor> of get_all_monitors
    manager_monitors,  \* MonitorManager.monitors
    panicAt,           \* the function whose unwrap aborted the process, or "none"
    lastCall,          \* the last call of Monitor::set_input and its result
    writes             \* the SetVCPFeature requests issued on the transport

vars == <<displays, capReply, pc, di, phys_mons, pj, monitors, manager_monitors,
          panicAt, lastCall, writes>>

----------------------------------------------------------------------------
(* Bounds of the model. *)

MaxDisplays == 2

MaxMonitors == 2

----------------------------------------------------------------------------
(* Option<T> *)

None == <<>>

Some(x) == <<x>>

IsSome(o) == Len(o) = 1

Unwrap(o) == o[1]

----------------------------------------------------------------------------
(* MonitorInput: the enum and its discriminants. *)

MonitorInputVariants ==
    << "AnalogVideo1", "AnalogVideo2", "DVI1", "DVI2",
       "CompositeVideo1", "CompositeVideo2", "SVideo1", "SVideo2",
       "Tuner1", "Tuner2", "Tuner3",
       "ComponentVideo1", "ComponentVideo2", "ComponentVideo3",
       "DisplayPort1", "DisplayPort2", "HDMI1", "HDMI2",
       "Unknown", "Reserved" >>

MonitorInput == { MonitorInputVariants[i] : i \in 1..Len(MonitorInputVariants) }

FirstDiscriminant == 1

DiscriminantFromZero(input) ==
    (CHOOSE i \in 1..Len(MonitorInputVariants) : MonitorInputVariants[i] = input) - 1

\* `input as u8`: the first variant is 1, each later one is one more.
Discriminant(input) ==
    (CHOOSE i \in 1..Len(MonitorInputVariants) : MonitorInputVariants[i] = input)
        - 1 + FirstDiscriminant

----------------------------------------------------------------------------
(* Hexadecimal tokens of a capability string. *)

HexUpper == << "0", "1", "2", "3", "4", "5", "6", "7",
               "8", "9", "A", "B", "C", "D", "E", "F" >>

HexLower == << "0", "1", "2", "3", "4", "5", "6", "7",
               "8", "9", "a", "b", "c", "d", "e", "f" >>

IsHex(c) == \E k \in 1..16 : HexUpper[k] = c \/ HexLower[k] = c

\* The value of one hexadecimal digit, upper or lower case.
HexDigitVal(c) == (CHOOSE k \in 1..16 : HexUpper[k] = c \/ HexLower[k] = c) - 1

\* A two-digit token read as a base-16 u8.
HexVal(tok) == 16 * HexDigitVal(tok[1]) + HexDigitVal(tok[2])

\* The two-digit upper-case token of a u8, as the MCCS capability strings write it.
Hex2(v) == << HexUpper[(v \div 16) + 1], HexUpper[(v % 16) + 1] >>

\* The same token in lower case.
Hex2Lower(v) == << HexLower[(v \div 16) + 1], HexLower[(v % 16) + 1] >>

----------------------------------------------------------------------------
(* MonitorCapabilities::from_cap_string, after section 4.1 of the          *)
(* specification: balanced groups, the model(...) group, the vcp(...)      *)
(* group's children, the later of two entries with one code winning.  The  *)
(* tokens are kept as written: the callers compare `command` as a String.  *)

ParseOk(caps) == [ok |-> TRUE, val |-> caps]

ParseErr(e) == [ok |-> FALSE, err |-> e]

IsBlank(raw) == \A i \in 1..Len(raw) : raw[i] = " "

ParenStep(c) == IF c = "(" THEN 1 ELSE IF c = ")" THEN -1 ELSE 0

Least(S) == CHOOSE x \in S : \A y \in S : x <= y

\* Over raw[lo..hi] (lo <= hi): the change of nesting depth, and the lowest
\* depth reached relative to the start.  The range is halved at each step.
RECURSIVE Nesting(_, _, _)
Nesting(raw, lo, hi) ==
    IF lo = hi
    THEN [net |-> ParenStep(raw[lo]), low |-> IF raw[lo] = ")" THEN -1 ELSE 0]
    ELSE LET mid == (lo + hi) \div 2
             a == Nesting(raw, lo, mid)
             b == Nesting(raw, mid + 1, hi)
         IN  [net |-> a.net + b.net,
              low |-> IF a.low <= a.net + b.low THEN a.low ELSE a.net + b.low]

\* The nesting depth after the first i characters.
Depth(raw, i) == IF i = 0 THEN 0 ELSE Nesting(raw, 1, i).net

Balanced(raw) ==
    \/ raw = << >>
    \/ LET all == Nesting(raw, 1, Len(raw)) IN all.net = 0 /\ all.low = 0

\* Does `name` followed by "(" start at i?
NameAt(raw, name, i) ==
    /\ i + Len(name) <= Len(raw)
    /\ \A k \in 1..Len(name) : raw[i + k - 1] = name[k]
    /\ raw[i + Len(name)] = "("
    /\ (i = 1 \/ raw[i - 1] \in {"(", ")", " "})

\* The index of the first character inside the first group `name(` at
\* nesting depth 1; 0 when there is none.
GroupStart(raw, name) ==
    LET starts == { i \in 1..Len(raw) : NameAt(raw, name, i) /\ Depth(raw, i - 1) = 1 }
    IN  IF starts = {} THEN 0 ELSE Least(starts) + Len(name) + 1

\* The first index in lo..hi at which the nesting depth, `depth` before
\* lo, falls below zero; hi + 1 when it never does.
RECURSIVE FirstClose(_, _, _, _)
FirstClose(raw, lo, hi, depth) ==
    IF lo > hi THEN hi + 1
    ELSE IF lo = hi THEN (IF depth + ParenStep(raw[lo]) < 0 THEN lo ELSE hi + 1)
    ELSE LET mid == (lo + hi) \div 2
             a == Nesting(raw, lo, mid)
         IN  IF depth + a.low < 0 THEN FirstClose(raw, lo, mid, depth)
             ELSE FirstClose(raw, mid + 1, hi, depth + a.net)

\* The index of the ")" closing the group whose inside starts at s.
GroupEnd(raw, s) == FirstClose(raw, s, Len(raw), 0)

\* The text inside the group `name(...)`, None when the group is absent.
GroupContent(raw, name) ==
    LET s == GroupStart(raw, name)
    IN  IF s = 0 THEN None
        ELSE Some(SubSeq(raw, s, GroupEnd(raw, s) - 1))

HexPairAt(s, i) == i + 1 <= Len(s) /\ IsHex(s[i]) /\ IsHex(s[i + 1])

\* The first index from i on that holds no blank (Len(s) + 1 when all do).
RECURSIVE SkipBlanks(_, _)
SkipBlanks(s, i) ==
    IF i <= Len(s) /\ s[i] = " " THEN SkipBlanks(s, i + 1) ELSE i

\* The values of one feature, from i (after the "(") up to the closing ")".
RECURSIVE ParseValues(_, _)
ParseValues(s, i) ==
    LET j == SkipBlanks(s, i)
    IN  IF j > Len(s) THEN [ok |-> FALSE, values |-> << >>, next |-> j]
        ELSE IF s[j] = ")" THEN [ok |-> TRUE, values |-> << >>, next |-> j + 1]
        ELSE IF HexPairAt(s, j)
             THEN LET r == ParseValues(s, j + 2)
                  IN  [ok |-> r.ok,
                       values |-> << [command |-> << s[j], s[j + 1] >>] >> \o r.values,
                       next |-> r.next]
        ELSE [ok |-> FALSE, values |-> << >>, next |-> j]

\* The children of vcp(...): a code, or a code with a parenthesised value list.
RECURSIVE ParseEntries(_, _)
ParseEntries(s, i) ==
    LET c == SkipBlanks(s, i)
    IN  IF c > Len(s) THEN [ok |-> TRUE, entries |-> << >>]
        ELSE IF HexPairAt(s, c)
             THEN LET code == << s[c], s[c + 1] >>
                      j == SkipBlanks(s, c + 2)
                  IN  IF j <= Len(s) /\ s[j] = "("
                      THEN LET v == ParseValues(s, j + 1)
                               rest == ParseEntries(s, v.next)
                           IN  IF ~v.ok THEN [ok |-> FALSE, entries |-> << >>]
                               ELSE [ok |-> rest.ok,
                                     entries |->
                                         << [command |-> code, values |-> v.values] >>
                                             \o rest.entries]
                      ELSE LET rest == ParseEntries(s, c + 2)
                           IN  [ok |-> rest.ok,
                                entries |-> << [command |-> code, values |-> << >>] >>
                                                \o rest.entries]
        ELSE [ok |-> FALSE, entries |-> << >>]

\* Feature codes are unique in the table: of two entries with one code
\* (read as a number) the later one stays.
RECURSIVE LastWins(_)
LastWins(entries) ==
    IF entries = << >> THEN << >>
    ELSE LET rest == Tail(entries)
         IN  IF \E k \in 1..Len(rest) :
                    HexVal(rest[k].command) = HexVal(Head(entries).command)
             THEN LastWins(rest)
             ELSE << Head(entries) >> \o LastWins(rest)

from_cap_string(raw) ==
    IF IsBlank(raw) THEN ParseErr("Empty")
    ELSE IF ~Balanced(raw) THEN ParseErr("Malformed")
    ELSE LET vcp == GroupContent(raw, << "v", "c", "p" >>)
             model == GroupContent(raw, << "m", "o", "d", "e", "l" >>)
         IN  IF ~IsSome(vcp) THEN ParseErr("Malformed")
             ELSE LET parsed == ParseEntries(Unwrap(vcp), 1)
                  IN  IF ~parsed.ok THEN ParseErr("Malformed")
                      ELSE ParseOk([display_model |->
                                        IF IsSome(model) THEN Unwrap(model) ELSE << >>,
                                    vcp_codes |-> LastWins(parsed.entries)])

----------------------------------------------------------------------------
(* The capability strings the transport may reply with. *)

\* "": no capability reporting
CapEmpty ==
    << >>

\* "  ": a reply of blanks only
CapBlank ==
    << " ", " " >>

\* "(model(A)vcp(10 60(01 02 03 04 05 06 07 08 09 0A 0B 0C 0D 0E 0F 10 11 12)))": every known Input Select value
CapAllInputs ==
    << "(", "m", "o", "d", "e", "l", "(", "A", ")", "v", "c", "p",
       "(", "1", "0", " ", "6", "0", "(", "0", "1", " ", "0", "2",
       " ", "0", "3", " ", "0", "4", " ", "0", "5", " ", "0", "6",
       " ", "0", "7", " ", "0", "8", " ", "0", "9", " ", "0", "A",
       " ", "0", "B", " ", "0", "C", " ", "0", "D", " ", "0", "E",
       " ", "0", "F", " ", "1", "0", " ", "1", "1", " ", "1", "2",
       ")", ")", ")" >>

\* "(vcp(60(0a 13 0A 0a)))": lower-case digits, an unknown and a repeated value
CapLowerCase ==
    << "(", "v", "c", "p", "(", "6", "0", "(", "0", "a", " ", "1",
       "3", " ", "0", "A", " ", "0", "a", ")", ")", ")" >>

\* "(vcp(10 12))": no Input Select feature
CapNoInputSelect ==
    << "(", "v", "c", "p", "(", "1", "0", " ", "1", "2", ")", ")" >>

\* "(vcp(60(01 02)": truncated reply
CapUnbalanced ==
    << "(", "v", "c", "p", "(", "6", "0", "(", "0", "1", " ", "0",
       "2", ")" >>

CapStrings ==
    { CapEmpty, CapBlank, CapAllInputs, CapLowerCase, CapNoInputSelect,
      CapUnbalanced }

----------------------------------------------------------------------------
(* MonitorManager::get_all_inputs_for_monitor *)

\* The String the feature table is searched for.
InputSelectToken == << "6", "0" >>

MapInputTokenShifted(tok) ==
    CASE tok = << "0", "1" >> -> "AnalogVideo1"
      [] tok = << "0", "2" >> -> "AnalogVideo2"
      [] tok = << "0", "3" >> -> "DVI1"
      [] tok = << "0", "4" >> -> "DVI2"
      [] tok = << "0", "5" >> -> "CompositeVideo1"
      [] tok = << "0", "6" >> -> "CompositeVideo2"
      [] tok = << "0", "7" >> -> "SVideo1"
      [] tok = << "0", "8" >> -> "SVideo2"
      [] tok = << "0", "9" >> -> "Tuner1"
      [] tok = << "1", "0" >> -> "Tuner2"
      [] tok = << "1", "1" >> -> "Tuner3"
      [] tok = << "1", "2" >> -> "ComponentVideo1"
      [] tok = << "1", "3" >> -> "ComponentVideo2"
      [] tok = << "1", "4" >> -> "ComponentVideo3"
      [] tok = << "1", "5" >> -> "DisplayPort1"
      [] tok = << "1", "6" >> -> "DisplayPort2"
      [] tok = << "1", "7" >> -> "HDMI1"
      [] tok = << "1", "8" >> -> "HDMI2"
      [] OTHER -> "Unknown"

\* The match on `&v.command[..]`: a comparison of Strings.
MapInputToken(tok) ==
    CASE tok = << "0", "1" >> -> "AnalogVideo1"
      [] tok = << "0", "2" >> -> "AnalogVideo2"
      [] tok = << "0", "3" >> -> "DVI1"
      [] tok = << "0", "4" >> -> "DVI2"
      [] tok = << "0", "5" >> -> "CompositeVideo1"
      [] tok = << "0", "6" >> -> "CompositeVideo2"
      [] tok = << "0", "7" >> -> "SVideo1"
      [] tok = << "0", "8" >> -> "SVideo2"
      [] tok = << "0", "9" >> -> "Tuner1"
      [] tok = << "0", "A" >> -> "Tuner2"
      [] tok = << "0", "B" >> -> "Tuner3"
      [] tok = << "0", "C" >> -> "ComponentVideo1"
      [] tok = << "0", "D" >> -> "ComponentVideo2"
      [] tok = << "0", "E" >> -> "ComponentVideo3"
      [] tok = << "0", "F" >> -> "DisplayPort1"
      [] tok = << "1", "0" >> -> "DisplayPort2"
      [] tok = << "1", "1" >> -> "HDMI1"
      [] tok = << "1", "2" >> -> "HDMI2"
      [] OTHER -> "Unknown"

\* `.iter().find(|cmd| &cmd.command == "60")`: the first entry, or None.
FindInputSelect(capabilities) ==
    LET codes == capabilities.vcp_codes
        hits == { k \in 1..Len(codes) : codes[k].command = InputSelectToken }
    IN  IF hits = {} THEN None
        ELSE Some(codes[CHOOSE k \in hits : \A h \in hits : k <= h])

\* The result of the call: Ok(inputs), or the panic of `.unwrap()` on None.
get_all_inputs_for_monitor(capabilities) ==
    LET found == FindInputSelect(capabilities)
    IN  IF ~IsSome(found) THEN [panic |-> TRUE, inputs |-> << >>]
        ELSE [panic |-> FALSE,
              inputs |-> [k \in 1..Len(Unwrap(found).values) |->
                              MapInputToken(Unwrap(found).values[k].command)]]

----------------------------------------------------------------------------
(* Monitor *)

\* `Monitor { ..Default::default() }`
DefaultMonitor ==
    [cap_string |-> None, capabilities |-> None, phys_mons |-> 0, inputs |-> << >>]

\* `let code = 60; // Input Select VCP Code`
InputSelectCode == 60

\* The value of SetVCPFeature that set_vcp_feature takes for success.
SetVCPFeatureOk == 1

\* What SetVCPFeature may return: FALSE (0) or TRUE (1).
SetVCPFeatureResults == {0, 1}

\* Monitor::set_vcp_feature: one SetVCPFeature request on the monitor's
\* handle; `transport` is what the call returns.
set_vcp_feature(mon, code, new_value, transport) ==
    [result |-> IF transport = SetVCPFeatureOk THEN "Ok" ELSE "Err",
     requests |-> << [handle |-> mon.phys_mons, code |-> code, value |-> new_value] >>]

\* Monitor::set_input: computes the code and the value, prints the input and
\* returns Ok(()); it does not call set_vcp_feature.
set_input(mon, input, transport) ==
    [code |-> InputSelectCode,
     input_code |-> Discriminant(input),
     result |-> "Ok",
     requests |-> << >>]

----------------------------------------------------------------------------
(* MonitorManager::get_all_monitors *)

RECURSIVE SumTo(_, _)
SumTo(shape, k) == IF k = 0 THEN 0 ELSE shape[k] + SumTo(shape, k - 1)

\* The body of the loop over the physical monitors of one display.
OpenMonitorKeepingFailures(phys_mon, cap_reply_str) ==
    LET caps == from_cap_string(cap_reply_str)
    IN  IF ~caps.ok
        THEN [kind |-> "push",
              mon |-> [DefaultMonitor EXCEPT !.cap_string = Some(cap_reply_str),
                                             !.phys_mons = phys_mon]]
        ELSE LET r == get_all_inputs_for_monitor(caps.val)
             IN  IF r.panic THEN [kind |-> "panic", mon |-> DefaultMonitor]
                 ELSE [kind |-> "push",
                       mon |-> [cap_string |-> Some(cap_reply_str),
                                capabilities |-> Some(caps.val),
                                phys_mons |-> phys_mon,
                                inputs |-> r.inputs]]

OpenMonitor(phys_mon, cap_reply_str) ==
    IF cap_reply_str = << >> THEN [kind |-> "continue", mon |-> DefaultMonitor]
    ELSE LET caps == from_cap_string(cap_reply_str)
         IN  IF ~caps.ok THEN [kind |-> "skip", mon |-> DefaultMonitor]
             ELSE LET r == get_all_inputs_for_monitor(caps.val)
                  IN  IF r.panic THEN [kind |-> "panic", mon |-> DefaultMonitor]
                      ELSE [kind |-> "push",
                            mon |-> [cap_string |-> Some(cap_reply_str),
                                     capabilities |-> Some(caps.val),
                                     phys_mons |-> phys_mon,
                                     inputs |-> r.inputs]]

----------------------------------------------------------------------------
(* The state machine: main. *)

\* The displays and their physical monitors: the handles are numbered in
\* the order of enumeration.
DisplayShapes ==
    { s \in UNION { [1..n -> 0..MaxMonitors] : n \in 0..MaxDisplays } :
          SumTo(s, Len(s)) <= MaxMonitors }

DisplaysOf(shape) ==
    [d \in 1..Len(shape) |-> [j \in 1..shape[d] |-> SumTo(shape, d - 1) + j]]

Init ==
    /\ \E shape \in DisplayShapes :
          /\ displays = DisplaysOf(shape)
          /\ capReply \in [1..SumTo(shape, Len(shape)) -> CapStrings]
    /\ pc = "discover"
    /\ di = 0
    /\ phys_mons = << >>
    /\ pj = 1
    /\ monitors = << >>
    /\ manager_monitors = << >>
    /\ panicAt = "none"
    /\ lastCall = None
    /\ writes = << >>

\* `for mon_ref in display_mons`: the physical monitors of the next display.
NextDisplay ==
    /\ pc = "discover"
    /\ pj > Len(phys_mons)
    /\ di < Len(displays)
    /\ di' = di + 1
    /\ phys_mons' = displays[di + 1]
    /\ pj' = 1
    /\ UNCHANGED <<displays, capReply, pc, monitors, manager_monitors, panicAt,
                   lastCall, writes>>

\* `for phys_mon in phys_mons`: one physical monitor.
ProcessPhysicalMonitor ==
    /\ pc = "discover"
    /\ pj <= Len(phys_mons)
    /\ LET phys_mon == phys_mons[pj]
           opened == OpenMonitor(phys_mon, capReply[phys_mon])
       IN  /\ monitors' = IF opened.kind = "push"
                          THEN Append(monitors, opened.mon) ELSE monitors
           /\ pc' = IF opened.kind = "panic" THEN "panicked" ELSE pc
           /\ panicAt' = IF opened.kind = "panic"
                         THEN "get_all_inputs_for_monitor" ELSE panicAt
    /\ pj' = pj + 1
    /\ UNCHANGED <<displays, capReply, di, phys_mons, manager_monitors,
                   lastCall, writes>>

\* `Ok(monitors)`, and MonitorManager::new stores the result.
ReturnMonitors ==
    /\ pc = "discover"
    /\ pj > Len(phys_mons)
    /\ di = Len(displays)
    /\ manager_monitors' = monitors
    /\ pc' = "app"
    /\ UNCHANGED <<displays, capReply, di, phys_mons, pj, monitors, panicAt,
                   lastCall, writes>>

\* App::create_with_monitor_manager: `monitor.capabilities.as_ref().unwrap()`
\* for every monitor of the manager, then the menu.
CreateApp ==
    /\ pc = "app"
    /\ IF \A m \in 1..Len(manager_monitors) : IsSome(manager_monitors[m].capabilities)
       THEN pc' = "run" /\ UNCHANGED panicAt
       ELSE pc' = "panicked" /\ panicAt' = "create_with_monitor_manager"
    /\ UNCHANGED <<displays, capReply, di, phys_mons, pj, monitors,
                   manager_monitors, lastCall, writes>>

\* The inputs set_input is called with: some the monitors list, some they
\* do not, Unknown and Reserved.
CallInputs == { "AnalogVideo1", "Tuner2", "HDMI1", "Unknown", "Reserved" }

\* A call of Monitor::set_input on one of the manager's monitors.
\* `transport` is what SetVCPFeature returns on that monitor's handle at
\* the time of the call, were it asked; the requests the call issues are
\* appended to the transport's log.
SetInput ==
    /\ pc = "run"
    /\ \E m \in 1..Len(manager_monitors), input \in CallInputs,
          transport \in SetVCPFeatureResults :
          LET call == set_input(manager_monitors[m], input, transport)
          IN  /\ lastCall' = Some([mon |-> m, input |-> input, transport |-> transport,
                                   code |-> call.code, input_code |-> call.input_code,
                                   result |-> call.result, requests |-> call.requests])
              /\ writes' = writes \o call.requests
    /\ UNCHANGED <<displays, capReply, pc, di, phys_mons, pj, monitors,
                   manager_monitors, panicAt>>

Next ==
    \/ NextDisplay
    \/ ProcessPhysicalMonitor
    \/ ReturnMonitors
    \/ CreateApp
    \/ SetInput

Spec == Init /\ [][Next]_vars

----------------------------------------------------------------------------
(* What the properties speak of. *)

Range(seq) == { seq[k] : k \in 1..Len(seq) }

\* Every Monitor the program holds: the local vector and the manager's.
Sessions == Range(monitors) \cup Range(manager_monitors)

\* The physical monitors in the order of enumeration: display by display.
RECURSIVE Flatten(_)
Flatten(seqs) == IF seqs = << >> THEN << >> ELSE Head(seqs) \o Flatten(Tail(seqs))

AllPhysical == Flatten(displays)

\* The physical monitors get_all_monitors has dealt with so far.
Processed ==
    { h \in Range(AllPhysical) :
          \/ \E d \in 1..(di - 1) : h \in Range(displays[d])
          \/ \E j \in 1..(pj - 1) : j <= Len(phys_mons) /\ phys_mons[j] = h }

\* The declared values of the Input Select entry of a Monitor's capabilities.
InputSelectValues(mon) == Unwrap(FindInputSelect(Unwrap(mon.capabilities))).values

\* The table of section 4.3, on numbers: 1..18 in the order of the enum,
\* anything else Unknown.
NumericTable(v) == IF v \in 1..18 THEN MonitorInputVariants[v] ELSE "Unknown"

\* The capability string parses and its table has an entry for code 0x60.
HasInputSelect(raw) ==
    /\ from_cap_string(raw).ok
    /\ \E k \in 1..Len(from_cap_string(raw).val.vcp_codes) :
          HexVal(from_cap_string(raw).val.vcp_codes[k].command) = HexVal(InputSelectToken)

ParsesWithoutInputSelect(raw) == from_cap_string(raw).ok /\ ~HasInputSelect(raw)

IsValidMonitor(h) == capReply[h] # << >> /\ HasInputSelect(capReply[h])

DiscoveryReturned == pc \in {"app", "run"} \/ panicAt = "create_with_monitor_manager"

----------------------------------------------------------------------------
(* C1: discovery returns, for any displays, exactly one session per        *)
(* physical monitor whose capability string is non-empty, parses and       *)
(* carries Input Select, in the order of enumeration, and no other.        *)

C1_DiscoveryReturnsValidMonitors ==
    /\ panicAt # "get_all_inputs_for_monitor"
    /\ DiscoveryReturned =>
          [k \in 1..Len(manager_monitors) |-> manager_monitors[k].phys_mons]
              = SelectSeq(AllPhysical, IsValidMonitor)

(* C2: a monitor whose capabilities parse but have no Input Select entry   *)
(* is excluded without aborting: once it has been dealt with the process   *)
(* has not panicked and no session was stored for it.                      *)

C2_NoInputFeatureIsExcluded ==
    \A h \in Processed :
        ParsesWithoutInputSelect(capReply[h]) =>
            /\ panicAt # "get_all_inputs_for_monitor"
            /\ \A s \in Sessions : s.phys_mons # h

(* C3: set_input with an input the session does not list returns an error  *)
(* and issues no SetVCPFeature request.                                    *)

C3_UnsupportedInputRejected ==
    IsSome(lastCall) =>
        LET call == Unwrap(lastCall)
        IN  call.input \notin Range(manager_monitors[call.mon].inputs) =>
                call.result = "Err" /\ call.requests = << >>

(* C4: a set_input that returns success has issued exactly one request, on *)
(* the session's own handle, with the Input Select code and the numeric    *)
(* value of the input.                                                     *)

C4_OneWritePerSuccess ==
    IsSome(lastCall) =>
        LET call == Unwrap(lastCall)
            mon == manager_monitors[call.mon]
        IN  call.result = "Ok" =>
                call.requests =
                    set_vcp_feature(mon, call.code, Discriminant(call.input),
                                    call.transport).requests

(* C5: set_input with a listed input returns an error when SetVCPFeature   *)
(* does not acknowledge.                                                   *)

C5_TransportFailureReported ==
    IsSome(lastCall) =>
        LET call == Unwrap(lastCall)
            mon == manager_monitors[call.mon]
        IN  /\ call.input \in Range(mon.inputs)
            /\ set_vcp_feature(mon, call.code, call.input_code, call.transport).result
                   = "Err"
            => call.result = "Err"

(* C6: the input list of a session has the length of the declared value    *)
(* list of Input Select, its i-th element is the table's image of the i-th *)
(* declared value read as a number, and Reserved is never produced.        *)

C6_InputsFollowDeclaredValues ==
    \A s \in Sessions :
        /\ Len(s.inputs) = Len(InputSelectValues(s))
        /\ \A i \in 1..Len(s.inputs) :
              /\ s.inputs[i] = NumericTable(HexVal(InputSelectValues(s)[i].command))
              /\ s.inputs[i] # "Reserved"

(* C7: for v from 1 to 18, the input the table gives for the two-digit     *)
(* token of v converts back to v: in every session, and in the value       *)
(* set_input computes for an input taken from the session's list.          *)

C7_ForwardThenInverse ==
    /\ \A s \in Sessions :
          LET values == InputSelectValues(s)
          IN  \A i \in 1..Len(s.inputs) : \A v \in 1..18 :
                  values[i].command = Hex2(v) => Discriminant(s.inputs[i]) = v
    /\ IsSome(lastCall) =>
          LET call == Unwrap(lastCall)
              mon == manager_monitors[call.mon]
              values == InputSelectValues(mon)
          IN  \A i \in 1..Len(mon.inputs) : \A v \in 1..18 :
                  /\ mon.inputs[i] = call.input
                  /\ values[i].command = Hex2(v)
                  => call.input_code = v

\* set_input was called with Tuner2 on a session that lists all 18 inputs.
C7_Witness ==
    /\ IsSome(lastCall)
    /\ Unwrap(lastCall).input = "Tuner2"
    /\ Unwrap(lastCall).input_code = 10
    /\ { InputSelectValues(manager_monitors[Unwrap(lastCall).mon])[i].command :
             i \in 1..Len(manager_monitors[Unwrap(lastCall).mon].inputs) }
           = { Hex2(v) : v \in 1..18 }

(* C8: every session held was built from a non-empty capability string     *)
(* that parses, and is complete: the string and the capabilities are       *)
(* present, the capabilities are the parse of the string, the inputs are   *)
(* the mapper's output for them; the App never finds capabilities absent.  *)

C8_SessionsFullyConstructed ==
    /\ \A s \in Sessions :
          /\ IsSome(s.cap_string)
          /\ Unwrap(s.cap_string) # << >>
          /\ Unwrap(s.cap_string) = capReply[s.phys_mons]
          /\ LET parsed == from_cap_string(Unwrap(s.cap_string))
             IN  /\ parsed.ok
                 /\ s.capabilities = Some(parsed.val)
                 /\ ~get_all_inputs_for_monitor(parsed.val).panic
                 /\ s.inputs = get_all_inputs_for_monitor(parsed.val).inputs
    /\ panicAt # "create_with_monitor_manager"

\* The App runs on a session although another monitor's reply, not empty,
\* did not parse.
C8_Witness ==
    /\ pc = "run"
    /\ manager_monitors # << >>
    /\ \E h \in Range(AllPhysical) : capReply[h] # << >> /\ ~from_cap_string(capReply[h]).ok

(* C9: a declared value spelt with a lower-case letter (0a to 0f) maps to   *)
(* the input its upper-case spelling maps to.                              *)

C9_CaseInsensitive ==
    \A s \in Sessions : \A i \in 1..Len(s.inputs) : \A v \in 10..15 :
        InputSelectValues(s)[i].command = Hex2Lower(v) =>
            s.inputs[i] = MapInputToken(Hex2(v))

(* C10: the feature code set_input designates is the code of the entry the *)
(* inputs were read from, the token "60" read in base 16.                  *)

C10_SameFeatureCode ==
    IsSome(lastCall) => Unwrap(lastCall).code = HexVal(InputSelectToken)

====
